---------------------------- MODULE Spec2Model ----------------------------
(***************************************************************************)
(* Lampshade Pattern Generator (bespokenz/Lampshades).                     *)
(*                                                                         *)
(* The module models                                                       *)
(*   - calculatePatternData (src/patternCalculator.ts),                    *)
(*   - the App component's state and handlers (src/unnamed/part_000),      *)
(*   - the form's setters (src/InputForm.tsx),                             *)
(*   - handlePrint of PatternPreview (src/PatternPreview.tsx).             *)
(*                                                                         *)
(* Numbers.  The program computes in IEEE doubles; the model computes in   *)
(* fixed point with truncation:                                            *)
(*   - the fields of LampshadeDimensions are integers counting hundredths  *)
(*     of the selected unit (2000 is 20.00),                               *)
(*   - every length computed by calculatePatternData counts thousandths    *)
(*     of the unit (20615 is 20.615),                                      *)
(*   - angles count thousandths of a radian, and the values of cos and     *)
(*     sin count thousandths (1000 is 1.0),                                *)
(*   - pixel lengths in handlePrint count hundredths of a CSS pixel.       *)
(* Branch decisions on computed values are made on the fixed-point values, *)
(* as the code makes them on its doubles; CalcBranchesExact states that    *)
(* on every input of the model they agree with the decisions exact real    *)
(* arithmetic makes.                                                       *)
(***************************************************************************)
EXTENDS Integers, Sequences, FiniteSets, TLC

VARIABLES
    dimensions,        \* App: useState<LampshadeDimensions>
    patternData,       \* App: useState<PatternData | null>
    error,             \* App: useState<string | null>
    validationErrors,  \* App: useState<ValidationErrors>
    isGenerating,      \* App: useState<boolean>
    savedPatterns,     \* App: useState<SavedPattern[]>
    timers,            \* pending setTimeout callbacks, each with the dimensions its closure captured
    clock,             \* the value Date.now() returns
    paperSize,         \* PatternPreview: useState<'A4' | 'Letter'>
    printUnit,         \* PatternPreview: useState<Unit>
    printJob,          \* what the last handlePrint did to the document
    request            \* observation: the last generate request and the pattern shown before it

vars == <<dimensions, patternData, error, validationErrors, isGenerating,
          savedPatterns, timers, clock, paperSize, printUnit, printJob, request>>

\* null where an object is expected (PatternData | null)
NULL == [type |-> "null"]

\* null where a string is expected (string | null)
NoMessage == "null"

-----------------------------------------------------------------------------
(* Fixed-point arithmetic *)

\* thousandths per 1.0
ONE == 10 * 100

Abs(x) == IF x < 0 THEN -x ELSE x

Sign(x) == IF x < 0 THEN -1 ELSE 1

RECURSIVE GCD(_, _)
GCD(a, b) == IF b = 0 THEN a ELSE GCD(b, a % b)

\* floor(a * b / c) for a, b >= 0 and c > 0, without forming a * b
MulDiv(a, b, c) ==
    LET g == GCD(b, c)
        bb == b \div g
        cc == c \div g
        q == a \div cc
        r == a % cc
    IN  q * bb + (r * bb) \div cc

\* the product of two fixed-point numbers, truncated toward zero
FixMul(a, b) == Sign(a) * Sign(b) * ((Abs(a) * Abs(b)) \div ONE)

RECURSIVE SqrtSearch(_, _, _)
SqrtSearch(n, lo, hi) ==
    IF lo >= hi THEN lo
    ELSE LET mid == (lo + hi + 1) \div 2
         IN  IF mid * mid <= n THEN SqrtSearch(n, mid, hi)
                               ELSE SqrtSearch(n, lo, mid - 1)

\* floor(sqrt(n))
ISqrt(n) == SqrtSearch(n, 0, 46340)

\* floor(10 * sqrt(n)): one more decimal digit of the root, long-hand
ISqrt10(n) ==
    LET r == ISqrt(n)
        rem == n - r * r
        d == CHOOSE k \in 0..9 :
                 /\ (20 * r + k) * k <= 100 * rem
                 /\ (k = 9 \/ (20 * r + k + 1) * (k + 1) > 100 * rem)
    IN  10 * r + d

\* Math.sqrt(Math.pow(a, 2) + Math.pow(b, 2)) for lengths a, b that are
\* multiples of 5 thousandths (halves of hundredths): floor(5 * sqrt(a'^2 + b'^2))
MathSqrtSumSq(a, b) ==
    LET a5 == Abs(a) \div 5
        b5 == Abs(b) \div 5
    IN  ISqrt10(a5 * a5 + b5 * b5) \div 2

\* Math.PI, in thousandths
MathPI == 3142

\* Math.cos on [0, pi/2]: the Taylor polynomial to the 8th power
CosSeries(a) ==
    LET a2 == (a * a) \div ONE
        a4 == (a2 * a2) \div ONE
        a6 == (a4 * a2) \div ONE
        a8 == (a6 * a2) \div ONE
    IN  ONE - a2 \div 2 + a4 \div 24 - a6 \div 720 + a8 \div 40320

\* Math.cos for an angle in [-pi, pi]
MathCos(a) ==
    LET x == Abs(a)
    IN  IF 2 * x <= MathPI THEN CosSeries(x) ELSE -CosSeries(MathPI - x)

\* Math.sin on [0, pi/2]: the Taylor polynomial to the 9th power
SinSeries(a) ==
    LET a2 == (a * a) \div ONE
        a3 == (a2 * a) \div ONE
        a5 == (a3 * a2) \div ONE
        a7 == (a5 * a2) \div ONE
        a9 == (a7 * a2) \div ONE
    IN  a - a3 \div 6 + a5 \div 120 - a7 \div 5040 + a9 \div 362880

\* Math.sin for an angle in [-pi, pi]: sin x = sin(pi - x) past pi/2
MathSin(a) ==
    LET x == Abs(a)
    IN  Sign(a) * (IF 2 * x <= MathPI THEN SinSeries(x) ELSE SinSeries(MathPI - x))

RECURSIVE SeqMin(_)
SeqMin(s) ==
    IF Len(s) = 1 THEN s[1]
    ELSE LET m == SeqMin(Tail(s)) IN IF s[1] < m THEN s[1] ELSE m

RECURSIVE SeqMax(_)
SeqMax(s) ==
    IF Len(s) = 1 THEN s[1]
    ELSE LET m == SeqMax(Tail(s)) IN IF s[1] > m THEN s[1] ELSE m

-----------------------------------------------------------------------------
(* src/patternCalculator.ts *)

InvalidTaperMessage == "Bottom diameter must be larger than top diameter."

AngleOverflowMessage == "The resulting pattern angle is too large. This geometry is not possible."

Return(v) == [ok |-> TRUE, value |-> v]

Throw(m) == [ok |-> FALSE, message |-> m]

\* mutant: the circumference taken as 2 pi d, the diameter used as a radius
DrumPattern_DiameterAsRadius(dims) ==
    LET circumference == MulDiv(10 * dims.bottomDiameter, 2 * MathPI, ONE)
        width == circumference
        height == 10 * dims.height
    IN  [type |-> "drum",
         circumference |-> circumference,
         viewBox |-> <<0, 0, width, height>>,
         width |-> width,
         height |-> height,
         dimensions |-> dims]

\* the drum branch, lines 5-17
DrumPattern(dims) ==
    LET circumference == MulDiv(10 * dims.bottomDiameter, MathPI, ONE)
        width == circumference
        height == 10 * dims.height
    IN  [type |-> "drum",
         circumference |-> circumference,
         viewBox |-> <<0, 0, width, height>>,
         width |-> width,
         height |-> height,
         dimensions |-> dims]

\* rTop, rBottom (lines 20-21) and verticalHeight (line 23), in thousandths
Radius(diameter) == 5 * diameter

VerticalHeight(dims) == 10 * dims.height

\* mutant: the slant height taken as the vertical height, the run dropped
SlantHeight_NoRun(dims) == VerticalHeight(dims)

\* mutant: the slant height taken as the run, the height dropped
SlantHeight_NoHeight(dims) ==
    Radius(dims.bottomDiameter) - Radius(dims.topDiameter)

\* slantHeight, line 25
SlantHeight(dims) ==
    MathSqrtSumSq(VerticalHeight(dims),
                  Radius(dims.bottomDiameter) - Radius(dims.topDiameter))

\* LTop and LBottom, lines 31-32: (slantHeight * r) / (rBottom - rTop)
ApexDistance(dims, r) ==
    MulDiv(SlantHeight(dims), r,
           Radius(dims.bottomDiameter) - Radius(dims.topDiameter))

\* mutant: the angle taken from the bottom diameter, not the bottom radius
SectorAngle_Diameter(rBottom, LBottom) ==
    MulDiv(MulDiv(2 * rBottom, 2 * MathPI, ONE), ONE, LBottom)

\* angle, line 34: (2 * Math.PI * rBottom) / LBottom
SectorAngle(rBottom, LBottom) ==
    MulDiv(MulDiv(rBottom, 2 * MathPI, ONE), ONE, LBottom)

\* the angle of the sector unrolled from dims (bottomDiameter > topDiameter)
ConeAngle(dims) ==
    SectorAngle(Radius(dims.bottomDiameter),
                ApexDistance(dims, Radius(dims.bottomDiameter)))

\* p1..p4, lines 41-54: inner and outer end at startAngle, outer and inner
\* end at endAngle
CornerPoints(LTop, LBottom, angle) ==
    LET startAngle == -(angle \div 2)
        endAngle == angle \div 2
    IN  << [x |-> FixMul(LTop, MathCos(startAngle)),
            y |-> FixMul(LTop, MathSin(startAngle))],
           [x |-> FixMul(LBottom, MathCos(startAngle)),
            y |-> FixMul(LBottom, MathSin(startAngle))],
           [x |-> FixMul(LBottom, MathCos(endAngle)),
            y |-> FixMul(LBottom, MathSin(endAngle))],
           [x |-> FixMul(LTop, MathCos(endAngle)),
            y |-> FixMul(LTop, MathSin(endAngle))] >>

\* largeArcFlag, line 56
LargeArcFlag(angle) == IF angle > MathPI THEN 1 ELSE 0

\* mutant: the inner arc swept in the sense of the outer one
PathD_SameSweep(p, LTop, LBottom, largeArcFlag) ==
    << [cmd |-> "M", x |-> p[1].x, y |-> p[1].y],
       [cmd |-> "L", x |-> p[2].x, y |-> p[2].y],
       [cmd |-> "A", rx |-> LBottom, ry |-> LBottom, rotation |-> 0,
        largeArc |-> largeArcFlag, sweep |-> 1, x |-> p[3].x, y |-> p[3].y],
       [cmd |-> "L", x |-> p[4].x, y |-> p[4].y],
       [cmd |-> "A", rx |-> LTop, ry |-> LTop, rotation |-> 0,
        largeArc |-> largeArcFlag, sweep |-> 1, x |-> p[1].x, y |-> p[1].y],
       [cmd |-> "Z"] >>

\* pathD, lines 58-65: the path's commands in order
PathD(p, LTop, LBottom, largeArcFlag) ==
    << [cmd |-> "M", x |-> p[1].x, y |-> p[1].y],
       [cmd |-> "L", x |-> p[2].x, y |-> p[2].y],
       [cmd |-> "A", rx |-> LBottom, ry |-> LBottom, rotation |-> 0,
        largeArc |-> largeArcFlag, sweep |-> 1, x |-> p[3].x, y |-> p[3].y],
       [cmd |-> "L", x |-> p[4].x, y |-> p[4].y],
       [cmd |-> "A", rx |-> LTop, ry |-> LTop, rotation |-> 0,
        largeArc |-> largeArcFlag, sweep |-> 0, x |-> p[1].x, y |-> p[1].y],
       [cmd |-> "Z"] >>

\* allX/allY, lines 68-75: the corners, and (LBottom, 0) below a half turn
BoundingPoints(p, LBottom, angle) ==
    IF angle < MathPI THEN Append(p, [x |-> LBottom, y |-> 0]) ELSE p

\* lines 77-83: <<minX, minY, width, height>> of the points
BoundingBox(pts) ==
    LET allX == [i \in 1..Len(pts) |-> pts[i].x]
        allY == [i \in 1..Len(pts) |-> pts[i].y]
    IN  << SeqMin(allX), SeqMin(allY),
           SeqMax(allX) - SeqMin(allX), SeqMax(allY) - SeqMin(allY) >>

\* the returned object, lines 85-95
ConeRecord(dims, slantHeight, pathD, box) ==
    [type |-> "cone",
     pathD |-> pathD,
     viewBox |-> box,
     width |-> box[3],
     height |-> box[4],
     dimensions |-> dims,
     slantHeight |-> slantHeight,
     topArcLength |-> MulDiv(10 * dims.topDiameter, MathPI, ONE),
     bottomArcLength |-> MulDiv(10 * dims.bottomDiameter, MathPI, ONE)]

\* lines 34-95, for the radii of the sector
ConeSector(dims, slantHeight, LTop, LBottom, angle) ==
    IF angle > 2 * MathPI THEN Throw(AngleOverflowMessage)
    ELSE Return(ConeRecord(dims, slantHeight,
                           PathD(CornerPoints(LTop, LBottom, angle),
                                 LTop, LBottom, LargeArcFlag(angle)),
                           BoundingBox(BoundingPoints(
                               CornerPoints(LTop, LBottom, angle), LBottom, angle))))

\* the cone/empire branch, lines 19-95
ConePattern(dims) ==
    IF Radius(dims.bottomDiameter) <= Radius(dims.topDiameter)
    THEN Throw(InvalidTaperMessage)
    ELSE ConeSector(dims, SlantHeight(dims),
                    ApexDistance(dims, Radius(dims.topDiameter)),
                    ApexDistance(dims, Radius(dims.bottomDiameter)),
                    ConeAngle(dims))

\* calculatePatternData: dispatch on equality of the diameters, line 4
calculatePatternData(dims) ==
    IF dims.topDiameter = dims.bottomDiameter
    THEN Return(DrumPattern(dims))
    ELSE ConePattern(dims)

-----------------------------------------------------------------------------
(* src/unnamed/part_000 (types) and src/unnamed/part_001 (constants) *)

\* type Unit
Units == {"in", "cm", "px"}

\* type Shape
Shapes == {"cone", "empire", "drum"}

\* interface LampshadeDimensions
Dims(t, b, h, u, s) ==
    [topDiameter |-> t, bottomDiameter |-> b, height |-> h, unit |-> u, shape |-> s]

initialDimensions == Dims(2000, 3000, 2000, "cm", "cone")

\* the empty ValidationErrors object
NoErrors == [f \in {} |-> ""]

\* no handlePrint has run
NoPrintJob == [status |-> "none", pages |-> <<>>, grid |-> NULL]

\* no generate request has been made
NoRequest == [status |-> "none", prior |-> NULL]

-----------------------------------------------------------------------------
(* src/PatternPreview.tsx: handlePrint *)

\* Pixels per inch
PPI == 96

\* convertToPx: a length in thousandths of `unit` to hundredths of a pixel
convertToPx(value, unit) ==
    IF unit = "in" THEN MulDiv(value, PPI, 10)
    ELSE IF unit = "cm" THEN MulDiv(value, 100 * PPI, 2540)
    ELSE value \div 10

\* convertFromPx: hundredths of a pixel to thousandths of `targetUnit`
convertFromPx(value, targetUnit) ==
    IF targetUnit = "in" THEN MulDiv(value, 10, PPI)
    ELSE IF targetUnit = "cm" THEN MulDiv(value, 254, 10 * PPI)
    ELSE value * 10

\* PAPER_SIZES, in hundredths of an inch
PAPER_SIZES ==
    [A4 |-> [width |-> 827, height |-> 1169],
     Letter |-> [width |-> 850, height |-> 1100]]

PaperSizes == {"A4", "Letter"}

\* the units the print-unit select offers, lines 305-306
PrintUnits == {"cm", "in"}

\* PRINT_MARGIN_IN, in hundredths of an inch
PRINT_MARGIN_IN == 50

\* printableWidthPx, printableHeightPx, lines 69-70
PrintableWidthPx(paper) == (PAPER_SIZES[paper].width - 2 * PRINT_MARGIN_IN) * PPI

PrintableHeightPx(paper) == (PAPER_SIZES[paper].height - 2 * PRINT_MARGIN_IN) * PPI

\* mutant: the quotient rounded down and one added
GridCount_FloorPlusOne(lengthPx, pagePx) == lengthPx \div pagePx + 1

\* Math.ceil(lengthPx / pagePx), lines 73-74
GridCount(lengthPx, pagePx) == (lengthPx + pagePx - 1) \div pagePx

\* the page ceiling of line 75
PageCeiling == 50

\* mutant: the ceiling itself refused
TooLarge_AtCeiling(cols, rows) == cols * rows >= PageCeiling

\* line 75: the safety break
TooLarge(cols, rows) == cols * rows > PageCeiling

\* the locals of handlePrint, lines 62-79
PrintLocals(pattern, paper, unit) ==
    [patternWidthPx |-> convertToPx(pattern.width, pattern.dimensions.unit),
     patternHeightPx |-> convertToPx(pattern.height, pattern.dimensions.unit),
     printableWidthPx |-> PrintableWidthPx(paper),
     printableHeightPx |-> PrintableHeightPx(paper),
     cols |-> GridCount(convertToPx(pattern.width, pattern.dimensions.unit),
                        PrintableWidthPx(paper)),
     rows |-> GridCount(convertToPx(pattern.height, pattern.dimensions.unit),
                        PrintableHeightPx(paper)),
     paperSize |-> paper,
     printUnit |-> unit]

\* the alignment marks, lines 166-189; joinRow and joinCol are the 1-based
\* numbers printed after "Join to R.., C.."
TopMark(row, col) == [edge |-> "top", joinRow |-> row, joinCol |-> col + 1]

BottomMark(row, col) == [edge |-> "bottom", joinRow |-> row + 2, joinCol |-> col + 1]

\* mutant: the left mark names the tile's own column
LeftMark_OwnColumn(row, col) == [edge |-> "left", joinRow |-> row + 1, joinCol |-> col + 1]

LeftMark(row, col) == [edge |-> "left", joinRow |-> row + 1, joinCol |-> col]

RightMark(row, col) == [edge |-> "right", joinRow |-> row + 1, joinCol |-> col + 2]

\* mutant: the bottom mark tested against rows, not rows - 1
AlignmentMarks_BottomOffByOne(row, col, rows, cols) ==
    (IF row > 0 THEN <<TopMark(row, col)>> ELSE <<>>)
    \o (IF row < rows THEN <<BottomMark(row, col)>> ELSE <<>>)
    \o (IF col > 0 THEN <<LeftMark(row, col)>> ELSE <<>>)
    \o (IF col < cols - 1 THEN <<RightMark(row, col)>> ELSE <<>>)

\* the marks appended to a page, in the order of lines 166-189
AlignmentMarks(row, col, rows, cols) ==
    (IF row > 0 THEN <<TopMark(row, col)>> ELSE <<>>)
    \o (IF row < rows - 1 THEN <<BottomMark(row, col)>> ELSE <<>>)
    \o (IF col > 0 THEN <<LeftMark(row, col)>> ELSE <<>>)
    \o (IF col < cols - 1 THEN <<RightMark(row, col)>> ELSE <<>>)

\* mutant: the page number counted with rows for cols
PageNumber_RowsForCols(row, col, cols, rows) == row * rows + col + 1

\* line 154: Page ${row * cols + col + 1}
PageNumber(row, col, cols, rows) == row * cols + col + 1

\* one .print-page, lines 139-192
PrintPage(row, col, g) ==
    [left |-> -(col * g.printableWidthPx),
     top |-> -(row * g.printableHeightPx),
     svgWidth |-> g.patternWidthPx,
     svgHeight |-> g.patternHeightPx,
     pageNumber |-> PageNumber(row, col, g.cols, g.rows),
     totalPages |-> g.cols * g.rows,
     totalSize |-> <<convertFromPx(g.patternWidthPx, g.printUnit),
                     convertFromPx(g.patternHeightPx, g.printUnit), g.printUnit>>,
     assemblyRow |-> row + 1,
     assemblyCol |-> col + 1,
     marks |-> AlignmentMarks(row, col, g.rows, g.cols)]

\* the inner loop, line 138
RECURSIVE ColLoop(_, _, _)
ColLoop(row, col, g) ==
    IF col < g.cols
    THEN <<PrintPage(row, col, g)>> \o ColLoop(row, col + 1, g)
    ELSE <<>>

\* the outer loop, line 137
RECURSIVE RowLoop(_, _)
RowLoop(row, g) ==
    IF row < g.rows
    THEN ColLoop(row, 0, g) \o RowLoop(row + 1, g)
    ELSE <<>>

\* what handlePrint does for its locals g: the alert of line 76 and nothing
\* else, or the container of lines 82-194 handed to window.print()
PrintOutcome(g) ==
    IF TooLarge(g.cols, g.rows)
    THEN [status |-> "alerted", pages |-> <<>>, grid |-> g]
    ELSE [status |-> "printed", pages |-> RowLoop(0, g), grid |-> g]

\* handlePrint, lines 51-200.  The Print button is rendered only with a
\* pattern and no error (renderContent), where svgRef.current is set.
HandlePrint ==
    /\ patternData # NULL
    /\ error = NoMessage
    /\ printJob' = PrintOutcome(PrintLocals(patternData, paperSize, printUnit))
    /\ UNCHANGED <<dimensions, patternData, error, validationErrors, isGenerating,
                   savedPatterns, timers, clock, paperSize, printUnit, request>>

\* setPaperSize, line 292
SetPaperSize(p) ==
    /\ patternData # NULL
    /\ error = NoMessage
    /\ paperSize' = p
    /\ UNCHANGED <<dimensions, patternData, error, validationErrors, isGenerating,
                   savedPatterns, timers, clock, printUnit, printJob, request>>

\* setPrintUnit, line 302
SetPrintUnit(u) ==
    /\ patternData # NULL
    /\ error = NoMessage
    /\ printUnit' = u
    /\ UNCHANGED <<dimensions, patternData, error, validationErrors, isGenerating,
                   savedPatterns, timers, clock, paperSize, printJob, request>>

\* the dimensions whose patterns are printed: drums of diameter 2, 23 and 24
\* and height 10, 10.01, 50 and 50.01 in each unit, and the initial cone
PrintInputs ==
    {Dims(d, d, h, u, "drum") : d \in {200, 2300, 2400},
                                h \in {1000, 1001, 5000, 5001}, u \in Units}
    \cup {initialDimensions}

\* the preview shows the pattern generated from the dimensions
PrintInit ==
    /\ dimensions \in PrintInputs
    /\ patternData = calculatePatternData(dimensions).value
    /\ error = NoMessage
    /\ validationErrors = NoErrors
    /\ isGenerating = FALSE
    /\ savedPatterns = <<>>
    /\ timers = <<>>
    /\ clock = 0
    /\ paperSize = "A4"
    /\ printUnit = "cm"
    /\ printJob = NoPrintJob
    /\ request = NoRequest

PrintNext ==
    \/ HandlePrint
    \/ \E p \in PaperSizes : SetPaperSize(p)
    \/ \E u \in PrintUnits : SetPrintUnit(u)

SpecPrint == PrintInit /\ [][PrintNext]_vars

-----------------------------------------------------------------------------
(* src/unnamed/part_000 (App), src/InputForm.tsx, PatternPreview handleSave *)

MaxSaved == 2

MaxClock == 1

\* the values typed into the number fields: empty (parsed as 0) and 30
FieldValues == {0, 3000}

NumberFields == {"topDiameter", "bottomDiameter", "height"}

PositiveMessage(field) ==
    IF field = "height" THEN "Height must be greater than zero."
    ELSE "Diameter must be greater than zero."

TaperMessage == "Top diameter must be smaller than bottom diameter for cone/empire shapes."

\* handleGenerate, line 165
TaperRejected(dims) ==
    /\ dims.shape \in {"cone", "empire"}
    /\ dims.topDiameter >= dims.bottomDiameter

\* handleGenerate, lines 155-167: newErrors
NewErrors(dims) ==
    [f \in {g \in NumberFields : dims[g] <= 0}
           \cup (IF TaperRejected(dims) THEN {"topDiameter"} ELSE {}) |->
        IF f = "topDiameter" /\ TaperRejected(dims) THEN TaperMessage
        ELSE PositiveMessage(f)]

\* handleGenerate, lines 151-153 and 169-172, with the pattern left in place
RejectRequest_KeepPattern(newErrors) ==
    /\ error' = NoMessage
    /\ patternData' = patternData
    /\ validationErrors' = newErrors
    /\ request' = [status |-> "invalid", prior |-> patternData]
    /\ UNCHANGED <<dimensions, isGenerating, savedPatterns, timers, clock,
                   paperSize, printUnit, printJob>>

\* handleGenerate, lines 151-153 and 169-172: the three states are cleared,
\* the new errors are shown and the handler returns
RejectRequest(newErrors) ==
    /\ error' = NoMessage
    /\ patternData' = NULL
    /\ validationErrors' = newErrors
    /\ request' = [status |-> "invalid", prior |-> patternData]
    /\ UNCHANGED <<dimensions, isGenerating, savedPatterns, timers, clock,
                   paperSize, printUnit, printJob>>

\* mutant: the error of the last calculation is left in place
ScheduleCalculation_KeepError ==
    /\ error' = error
    /\ patternData' = NULL
    /\ validationErrors' = NoErrors
    /\ isGenerating' = TRUE
    /\ timers' = Append(timers, [dimensions |-> dimensions])
    /\ request' = [status |-> "pending", prior |-> patternData]
    /\ UNCHANGED <<dimensions, savedPatterns, clock, paperSize, printUnit, printJob>>

\* handleGenerate, lines 151-153 and 174-189: the three states are cleared
\* and the callback is scheduled with the dimensions of this render
ScheduleCalculation ==
    /\ error' = NoMessage
    /\ patternData' = NULL
    /\ validationErrors' = NoErrors
    /\ isGenerating' = TRUE
    /\ timers' = Append(timers, [dimensions |-> dimensions])
    /\ request' = [status |-> "pending", prior |-> patternData]
    /\ UNCHANGED <<dimensions, savedPatterns, clock, paperSize, printUnit, printJob>>

\* handleGenerate, lines 150-191; the button is disabled while isGenerating
HandleGenerate ==
    /\ ~isGenerating
    /\ IF DOMAIN NewErrors(dimensions) # {}
       THEN RejectRequest(NewErrors(dimensions))
       ELSE ScheduleCalculation

\* mutant: the callback reads the dimensions of the form when it runs,
\* not the ones its closure captured
TimerFire_FormDimensions ==
    /\ timers # <<>>
    /\ LET r == calculatePatternData(dimensions)
       IN  IF r.ok
           THEN /\ patternData' = r.value
                /\ error' = error
                /\ request' = [request EXCEPT !.status = "done"]
           ELSE /\ error' = r.message
                /\ patternData' = patternData
                /\ request' = [request EXCEPT !.status = "threw"]
    /\ isGenerating' = FALSE
    /\ timers' = Tail(timers)
    /\ UNCHANGED <<dimensions, validationErrors, savedPatterns, clock,
                   paperSize, printUnit, printJob>>

\* mutant: isGenerating reset after a result only, not in a finally
TimerFire_NoFinally ==
    /\ timers # <<>>
    /\ LET r == calculatePatternData(Head(timers).dimensions)
       IN  IF r.ok
           THEN /\ patternData' = r.value
                /\ error' = error
                /\ isGenerating' = FALSE
                /\ request' = [request EXCEPT !.status = "done"]
           ELSE /\ error' = r.message
                /\ patternData' = patternData
                /\ isGenerating' = isGenerating
                /\ request' = [request EXCEPT !.status = "threw"]
    /\ timers' = Tail(timers)
    /\ UNCHANGED <<dimensions, validationErrors, savedPatterns, clock,
                   paperSize, printUnit, printJob>>

\* the setTimeout callback, lines 176-189
TimerFire ==
    /\ timers # <<>>
    /\ LET r == calculatePatternData(Head(timers).dimensions)
       IN  IF r.ok
           THEN /\ patternData' = r.value
                /\ error' = error
                /\ request' = [request EXCEPT !.status = "done"]
           ELSE /\ error' = r.message
                /\ patternData' = patternData
                /\ request' = [request EXCEPT !.status = "threw"]
    /\ isGenerating' = FALSE
    /\ timers' = Tail(timers)
    /\ UNCHANGED <<dimensions, validationErrors, savedPatterns, clock,
                   paperSize, printUnit, printJob>>

\* InputForm handleChange, lines 140-146; the diameter fields are rendered
\* for cone and empire only
HandleChange(name, value) ==
    /\ name = "height" \/ dimensions.shape # "drum"
    /\ dimensions' = [dimensions EXCEPT ![name] = value]
    /\ UNCHANGED <<patternData, error, validationErrors, isGenerating, savedPatterns,
                   timers, clock, paperSize, printUnit, printJob, request>>

\* InputForm handleDrumDiameterChange, lines 148-156
HandleDrumDiameterChange(numValue) ==
    /\ dimensions.shape = "drum"
    /\ dimensions' = [dimensions EXCEPT !.topDiameter = numValue,
                                        !.bottomDiameter = numValue]
    /\ UNCHANGED <<patternData, error, validationErrors, isGenerating, savedPatterns,
                   timers, clock, paperSize, printUnit, printJob, request>>

\* InputForm handleUnitChange, lines 158-163
HandleUnitChange(unit) ==
    /\ dimensions' = [dimensions EXCEPT !.unit = unit]
    /\ UNCHANGED <<patternData, error, validationErrors, isGenerating, savedPatterns,
                   timers, clock, paperSize, printUnit, printJob, request>>

\* Math.max(prev.topDiameter, prev.bottomDiameter) || prev.bottomDiameter || 0
DrumDiameter(prev) ==
    LET m == IF prev.topDiameter > prev.bottomDiameter
             THEN prev.topDiameter ELSE prev.bottomDiameter
    IN  IF m # 0 THEN m
        ELSE IF prev.bottomDiameter # 0 THEN prev.bottomDiameter ELSE 0

\* mutant: the shape set, the diameters of a drum not made equal
HandleShapeChange_KeepDiameters(shape) ==
    /\ dimensions' = [dimensions EXCEPT !.shape = shape]
    /\ UNCHANGED <<patternData, error, validationErrors, isGenerating, savedPatterns,
                   timers, clock, paperSize, printUnit, printJob, request>>

\* InputForm handleShapeChange, lines 165-175
HandleShapeChange(shape) ==
    /\ dimensions' =
           IF shape = "drum"
           THEN [dimensions EXCEPT !.shape = shape,
                                   !.topDiameter = DrumDiameter(dimensions),
                                   !.bottomDiameter = DrumDiameter(dimensions)]
           ELSE [dimensions EXCEPT !.shape = shape]
    /\ UNCHANGED <<patternData, error, validationErrors, isGenerating, savedPatterns,
                   timers, clock, paperSize, printUnit, printJob, request>>

\* { ...dimensionsToSave, id: Date.now() }
SavedPattern(dimensionsToSave, id) ==
    [f \in DOMAIN dimensionsToSave \cup {"id"} |->
        IF f = "id" THEN id ELSE dimensionsToSave[f]]

\* PatternPreview handleSave, lines 45-49, calling App handleSavePattern,
\* lines 102-109; the Save button is rendered with a pattern and no error
HandleSave ==
    /\ patternData # NULL
    /\ error = NoMessage
    /\ Len(savedPatterns) < MaxSaved
    /\ savedPatterns' = Append(savedPatterns, SavedPattern(patternData.dimensions, clock))
    /\ UNCHANGED <<dimensions, patternData, error, validationErrors, isGenerating,
                   timers, clock, paperSize, printUnit, printJob, request>>

\* savedPatterns.find(p => p.id === id)
Find(patterns, id) ==
    patterns[CHOOSE i \in 1..Len(patterns) :
                 /\ patterns[i].id = id
                 /\ \A j \in 1..(i - 1) : patterns[j].id # id]

\* handleLoadPattern, lines 111-119; a Load button exists per listed pattern
HandleLoadPattern(id) ==
    /\ \E i \in 1..Len(savedPatterns) : savedPatterns[i].id = id
    /\ dimensions' = Find(savedPatterns, id)
    /\ patternData' = NULL
    /\ error' = NoMessage
    /\ validationErrors' = NoErrors
    /\ UNCHANGED <<isGenerating, savedPatterns, timers, clock, paperSize,
                   printUnit, printJob, request>>

\* handleDeletePattern, lines 121-124
HandleDeletePattern(id) ==
    /\ \E i \in 1..Len(savedPatterns) : savedPatterns[i].id = id
    /\ savedPatterns' = SelectSeq(savedPatterns, LAMBDA p : p.id # id)
    /\ UNCHANGED <<dimensions, patternData, error, validationErrors, isGenerating,
                   timers, clock, paperSize, printUnit, printJob, request>>

\* time passes: Date.now() grows
Tick ==
    /\ clock < MaxClock
    /\ clock' = clock + 1
    /\ UNCHANGED <<dimensions, patternData, error, validationErrors, isGenerating,
                   savedPatterns, timers, paperSize, printUnit, printJob, request>>

\* the App after its first render, with nothing stored in localStorage
Init ==
    /\ dimensions = initialDimensions
    /\ patternData = NULL
    /\ error = NoMessage
    /\ validationErrors = NoErrors
    /\ isGenerating = FALSE
    /\ savedPatterns = <<>>
    /\ timers = <<>>
    /\ clock = 0
    /\ paperSize = "A4"
    /\ printUnit = "cm"
    /\ printJob = NoPrintJob
    /\ request = NoRequest

\* the form and the generate request
Next ==
    \/ HandleGenerate
    \/ TimerFire
    \/ \E name \in NumberFields, value \in FieldValues : HandleChange(name, value)
    \/ \E numValue \in FieldValues : HandleDrumDiameterChange(numValue)
    \/ \E unit \in Units : HandleUnitChange(unit)
    \/ \E shape \in Shapes : HandleShapeChange(shape)

Spec == Init /\ [][Next]_vars

\* the saved patterns: generate, save, load and delete, the form left alone
SavedNext ==
    \/ HandleGenerate
    \/ TimerFire
    \/ HandleSave
    \/ \E id \in 0..MaxClock : HandleLoadPattern(id)
    \/ \E id \in 0..MaxClock : HandleDeletePattern(id)
    \/ Tick

SpecSaved == Init /\ [][SavedNext]_vars

\* ids given by an earlier session, before this session's clock
EarlierId == 0 - 2

\* what JSON.parse finds in localStorage at mount (lines 82-91): nothing, or
\* patterns stored earlier on the origin, which the app takes as they are; here
\* a cone 20/30/20 and a drum stored with unequal diameters 30/20
StoredLists ==
    LET cone == SavedPattern(initialDimensions, EarlierId)
        drum == SavedPattern(Dims(3000, 2000, 2000, "cm", "drum"), EarlierId + 1)
    IN  {<<>>, <<cone>>, <<drum>>, <<cone, drum>>}

\* the App after its mount effect has read localStorage
StoredInit ==
    /\ dimensions = initialDimensions
    /\ patternData = NULL
    /\ error = NoMessage
    /\ validationErrors = NoErrors
    /\ isGenerating = FALSE
    /\ savedPatterns \in StoredLists
    /\ timers = <<>>
    /\ clock = 0
    /\ paperSize = "A4"
    /\ printUnit = "cm"
    /\ printJob = NoPrintJob
    /\ request = NoRequest

\* generate, load and delete over stored patterns, the shape as the only
\* edit of the form
StoredNext ==
    \/ HandleGenerate
    \/ TimerFire
    \/ \E shape \in Shapes : HandleShapeChange(shape)
    \/ \E i \in 1..Len(savedPatterns) : HandleLoadPattern(savedPatterns[i].id)
    \/ \E i \in 1..Len(savedPatterns) : HandleDeletePattern(savedPatterns[i].id)

SpecStored == StoredInit /\ [][StoredNext]_vars

\* the shape, the drum diameter and the saved patterns together: generate,
\* save, load and delete with the edits that bear on the drum, at one clock
\* value
ShapesNext ==
    \/ HandleGenerate
    \/ TimerFire
    \/ \E shape \in Shapes : HandleShapeChange(shape)
    \/ \E numValue \in FieldValues : HandleDrumDiameterChange(numValue)
    \/ \E value \in FieldValues : HandleChange("topDiameter", value)
    \/ HandleSave
    \/ \E i \in 1..Len(savedPatterns) : HandleLoadPattern(savedPatterns[i].id)
    \/ \E i \in 1..Len(savedPatterns) : HandleDeletePattern(savedPatterns[i].id)

SpecShapes == Init /\ [][ShapesNext]_vars

-----------------------------------------------------------------------------
(* calculatePatternData called directly, on inputs drawn from a grid *)

MaxDiameterStep == 4

MaxHeightStep == 3

\* diameters 1, 10, 20, .. and 100 units, heights 0.01, 1, 10, 20, .. units
CalcDiameters == {100, 10000} \cup {1000 * k : k \in 1..MaxDiameterStep}

CalcHeights == {1, 100} \cup {1000 * k : k \in 1..MaxHeightStep}

CalcInputs ==
    {Dims(t, b, h, u, s) : t \in CalcDiameters, b \in CalcDiameters,
                           h \in CalcHeights, u \in Units, s \in Shapes}

CalcInit ==
    /\ dimensions \in CalcInputs
    /\ patternData = NULL
    /\ error = NoMessage
    /\ validationErrors = NoErrors
    /\ isGenerating = FALSE
    /\ savedPatterns = <<>>
    /\ timers = <<>>
    /\ clock = 0
    /\ paperSize = "A4"
    /\ printUnit = "cm"
    /\ printJob = NoPrintJob
    /\ request = NoRequest

\* try { data = calculatePatternData(dimensions) } catch (e) { error = e.message }
CalcCall ==
    /\ patternData = NULL
    /\ error = NoMessage
    /\ LET r == calculatePatternData(dimensions)
       IN  IF r.ok
           THEN patternData' = r.value /\ error' = error
           ELSE error' = r.message /\ patternData' = patternData
    /\ UNCHANGED <<dimensions, validationErrors, isGenerating, savedPatterns,
                   timers, clock, paperSize, printUnit, printJob, request>>

CalcNext == CalcCall

SpecCalc == CalcInit /\ [][CalcNext]_vars

\* calculatePatternData has returned or thrown
Called == patternData # NULL \/ error # NoMessage

\* the decision angle > pi, angle = pi, angle < pi in exact arithmetic:
\* angle = 2 pi (rBottom - rTop) / slantHeight, so angle > pi iff
\* 2 (rBottom - rTop) > slantHeight iff 3 (dBottom - dTop)^2 > 4 height^2
ExactAngleVsPi(dims) ==
    LET d == dims.bottomDiameter - dims.topDiameter
        l == 3 * d * d
        r == 4 * dims.height * dims.height
    IN  IF l > r THEN 1 ELSE IF l < r THEN -1 ELSE 0

\* On every input of the grid the fixed-point angle falls on the same side of
\* pi as the exact angle, and never exceeds 2 pi (the exact angle is below 2 pi
\* whenever the height is positive).
CalcBranchesExact ==
    (dimensions.topDiameter < dimensions.bottomDiameter) =>
        /\ (ConeAngle(dimensions) > MathPI) = (ExactAngleVsPi(dimensions) = 1)
        /\ (ConeAngle(dimensions) < MathPI) = (ExactAngleVsPi(dimensions) = -1)
        /\ ConeAngle(dimensions) <= 2 * MathPI

-----------------------------------------------------------------------------
(* Claims about calculatePatternData *)

TaperedShape(dims) == dims.shape \in {"cone", "empire"}

\* C1 (as claimed): called with a cone/empire shape and bottomDiameter <=
\* topDiameter, calculatePatternData fails with the InvalidTaper error and
\* returns no pattern.
C1_TaperedNotIncreasingFails ==
    (Called /\ TaperedShape(dimensions)
            /\ dimensions.bottomDiameter <= dimensions.topDiameter)
        => (error = InvalidTaperMessage /\ patternData = NULL)

\* the box of a pattern's viewBox holds the point (x, y)
InBox(vb, x, y) ==
    /\ vb[1] <= x /\ x <= vb[1] + vb[3]
    /\ vb[2] <= y /\ y <= vb[2] + vb[4]

\* C2 (as claimed): the viewBox of every returned frustum pattern contains
\* the whole boundary.  The outer arc runs from polar angle -angle/2 to
\* +angle/2 around the origin, so it passes through (outerRadius, 0), and
\* when the large-arc flag is set (angle > pi) through (0, -outerRadius) and
\* (0, outerRadius) as well: the box must hold the four corners and these.
C2_BoxContainsBoundary ==
    (patternData # NULL /\ patternData.type = "cone") =>
        LET vb == patternData.viewBox
            outer == patternData.pathD[3]
        IN  /\ \A i \in {1, 2, 4} :
                   InBox(vb, patternData.pathD[i].x, patternData.pathD[i].y)
            /\ InBox(vb, outer.x, outer.y)
            /\ InBox(vb, outer.rx, 0)
            /\ (outer.largeArc = 1) =>
                   (InBox(vb, 0, -outer.rx) /\ InBox(vb, 0, outer.rx))

\* topDiameter = 1, bottomDiameter = 100, height = 0.01
ExtremeFrustum(dims) ==
    dims.topDiameter = 100 /\ dims.bottomDiameter = 10000 /\ dims.height = 1

\* C3 (as claimed): the input topDiameter = 1, bottomDiameter = 100,
\* height = 0.01 fails with AngleOverflow.
C3_ExtremeFrustumOverflows ==
    (Called /\ ExtremeFrustum(dimensions)) => error = AngleOverflowMessage

\* C3 (amended): AngleOverflow is raised only when the computed angle exceeds
\* 2 pi; for topDiameter = 1, bottomDiameter = 100, height = 0.01 the angle
\* stays within 2 pi and a cone pattern with the large-arc flag set is returned.
C3_ExtremeFrustumIsPattern ==
    /\ (error = AngleOverflowMessage) => ConeAngle(dimensions) > 2 * MathPI
    /\ (Called /\ ExtremeFrustum(dimensions)) =>
           /\ error = NoMessage
           /\ patternData # NULL
           /\ patternData.type = "cone"
           /\ patternData.dimensions = dimensions
           /\ patternData.pathD[3].largeArc = 1

C3_Witness ==
    Called /\ ExtremeFrustum(dimensions) /\ patternData # NULL

\* C10: for equal diameters d > 0 and height h > 0 the result is a drum
\* pattern with width = pi * d (to the thousandth), height = h, the viewBox
\* origin (0, 0) and the extent (width, height), and the input dimensions
\* echoed.
C10_DrumPattern ==
    (Called /\ dimensions.topDiameter = dimensions.bottomDiameter
            /\ dimensions.topDiameter > 0 /\ dimensions.height > 0) =>
        /\ error = NoMessage
        /\ patternData # NULL
        /\ patternData.type = "drum"
        /\ patternData.width * ONE <= MathPI * (10 * dimensions.bottomDiameter)
        /\ MathPI * (10 * dimensions.bottomDiameter) < (patternData.width + 1) * ONE
        /\ patternData.circumference = patternData.width
        /\ patternData.height = 10 * dimensions.height
        /\ patternData.viewBox = <<0, 0, patternData.width, patternData.height>>
        /\ patternData.dimensions = dimensions

\* the part of C2 the code keeps: below a half turn the box holds the corners
\* and the outer arc's point at polar angle 0
BoxHoldsArcBelowHalfTurn ==
    (patternData # NULL /\ patternData.type = "cone"
                        /\ ExactAngleVsPi(dimensions) = -1) =>
        LET vb == patternData.viewBox
            outer == patternData.pathD[3]
        IN  /\ \A i \in {1, 2, 4} :
                   InBox(vb, patternData.pathD[i].x, patternData.pathD[i].y)
            /\ InBox(vb, outer.x, outer.y)
            /\ InBox(vb, outer.rx, 0)
            /\ outer.largeArc = 0
            /\ vb[1] + vb[3] = outer.rx

C10_Witness ==
    /\ patternData # NULL
    /\ patternData.type = "drum"
    /\ dimensions.shape = "drum"
    /\ dimensions.topDiameter = dimensions.bottomDiameter
    /\ patternData.width > 0

\* the frustum input: positive diameters and height, the top the smaller
Frustum(dims) ==
    /\ 0 < dims.topDiameter
    /\ dims.topDiameter < dims.bottomDiameter
    /\ dims.height > 0

Near(x, y, tol) == x - y <= tol /\ y - x <= tol

\* the frustum of scenario B: top 20, bottom 30, height 20
ScenarioB(dims) ==
    /\ dims.topDiameter = 2000
    /\ dims.bottomDiameter = 3000
    /\ dims.height = 2000

\* slant height 20.616, outer radius 61.85 and inner radius 41.23 to the
\* digits given, read off the returned pattern
ScenarioBRadii ==
    /\ patternData.type = "cone"
    /\ Near(patternData.slantHeight, 20616, 1)
    /\ Near(patternData.pathD[3].rx, 61850, 5)
    /\ Near(patternData.pathD[5].rx, 41230, 5)

\* C13 as stated: for 20/30/20 the slant height is about 20.616, the outer
\* radius about 61.85, the inner radius about 41.23, the sector angle about
\* 3.048 rad, below pi, and the large-arc flag in the path is 0.
C13_ScenarioBAngle3048 ==
    (Called /\ ScenarioB(dimensions)) =>
        /\ patternData # NULL
        /\ ScenarioBRadii
        /\ Near(ConeAngle(dimensions), 3048, 1)
        /\ ConeAngle(dimensions) < MathPI
        /\ patternData.pathD[3].largeArc = 0
        /\ patternData.pathD[5].largeArc = 0

\* C13 with the angle the code computes: 2 pi * 15 / 61.85, about 1.524 rad.
C13_ScenarioBAngle1524 ==
    (Called /\ ScenarioB(dimensions)) =>
        /\ patternData # NULL
        /\ ScenarioBRadii
        /\ Near(ConeAngle(dimensions), 1524, 1)
        /\ ConeAngle(dimensions) < MathPI
        /\ patternData.pathD[3].largeArc = 0
        /\ patternData.pathD[5].largeArc = 0

\* scenario B computed
C13_Witness ==
    /\ ScenarioB(dimensions)
    /\ patternData # NULL
    /\ patternData.dimensions = dimensions
    /\ patternData.pathD[3].cmd = "A"

\* the point at distance r from the apex in direction a
Polar(r, a) == [x |-> FixMul(r, MathCos(a)), y |-> FixMul(r, MathSin(a))]

\* the end point of a path command
EndPoint(c) == [x |-> c.x, y |-> c.y]

\* a frustum pattern has been returned
FrustumReturned == patternData # NULL /\ patternData.type = "cone"

\* C15: in the frustum path the large-arc flag is 1 exactly when the angle
\* exceeds pi and 0 otherwise, both arcs carry the same flag, the outer arc
\* has sweep 1 and the inner arc sweep 0, and the path goes inner corner at
\* -angle/2, outer corner at -angle/2, outer corner at +angle/2, inner corner
\* at +angle/2 and back to its start, where it closes.
C15_FrustumPath ==
    FrustumReturned =>
        LET d == patternData.pathD
            angle == ConeAngle(dimensions)
            inner == ApexDistance(dimensions, Radius(dimensions.topDiameter))
            outer == ApexDistance(dimensions, Radius(dimensions.bottomDiameter))
        IN  /\ Len(d) = 6
            /\ <<d[1].cmd, d[2].cmd, d[3].cmd, d[4].cmd, d[5].cmd, d[6].cmd>>
                   = <<"M", "L", "A", "L", "A", "Z">>
            /\ d[3].largeArc = (IF angle > MathPI THEN 1 ELSE 0)
            /\ (d[3].largeArc = 1) = (ExactAngleVsPi(dimensions) = 1)
            /\ d[5].largeArc = d[3].largeArc
            /\ d[3].sweep = 1
            /\ d[5].sweep = 0
            /\ <<d[3].rx, d[3].ry>> = <<outer, outer>>
            /\ <<d[5].rx, d[5].ry>> = <<inner, inner>>
            /\ EndPoint(d[1]) = Polar(inner, -(angle \div 2))
            /\ EndPoint(d[2]) = Polar(outer, -(angle \div 2))
            /\ EndPoint(d[3]) = Polar(outer, angle \div 2)
            /\ EndPoint(d[4]) = Polar(inner, angle \div 2)
            /\ EndPoint(d[5]) = EndPoint(d[1])

\* a frustum of more than a half turn, its flag 1 on both arcs
C15_Witness ==
    /\ FrustumReturned
    /\ ExactAngleVsPi(dimensions) = 1
    /\ patternData.pathD[3].largeArc = 1
    /\ patternData.pathD[5].largeArc = 1

\* a frustum of less than a half turn, its flag 0 on both arcs
C15_WitnessSmallArc ==
    /\ FrustumReturned
    /\ ExactAngleVsPi(dimensions) = -1
    /\ patternData.pathD[3].largeArc = 0
    /\ patternData.pathD[5].largeArc = 0

-----------------------------------------------------------------------------
(* Claims about handleGenerate *)

\* the last generate request failed: validation rejected it, or
\* calculatePatternData threw in the callback
RequestFailed == request.status \in {"invalid", "threw"}

\* C4 as stated: after a failed generate request patternData still holds the
\* pattern it held before the request.
C4_FailedRequestKeepsPattern ==
    RequestFailed => patternData = request.prior

\* C4 as the code has it: handleGenerate clears patternData before it
\* validates, so after a failed request no pattern is shown, whatever was
\* shown before, and no callback is left pending.
C4_FailedRequestClearsPattern ==
    RequestFailed =>
        /\ patternData = NULL
        /\ ~isGenerating
        /\ timers = <<>>

\* a request rejected by validation while a pattern was on display
C4_Witness ==
    /\ request.status = "invalid"
    /\ request.prior # NULL
    /\ DOMAIN validationErrors # {}
    /\ patternData = NULL

\* what validation in handleGenerate demands of the dimensions
Validated(dims) ==
    /\ dims.topDiameter > 0
    /\ dims.bottomDiameter > 0
    /\ dims.height > 0
    /\ (dims.shape \in {"cone", "empire"}) => (dims.topDiameter < dims.bottomDiameter)

\* every pending calculation holds validated dimensions, and so does every
\* pattern on display
ValidatedOnly ==
    /\ \A i \in 1..Len(timers) : Validated(timers[i].dimensions)
    /\ (patternData # NULL) => Validated(patternData.dimensions)

\* a callback that ran left the pattern of the dimensions it had captured
FiredOnCaptured ==
    (timers # <<>> /\ timers' = Tail(timers) /\ patternData' # NULL) =>
        /\ patternData' = calculatePatternData(Head(timers).dimensions).value
        /\ patternData'.dimensions = Head(timers).dimensions

\* C14: calculatePatternData is called by the app only with dimensions that
\* passed validation at the click, also when the form is edited during the
\* delay, and the pattern's dimensions are the validated ones, not the
\* form's later contents.
C14_OnlyValidatedDimensions ==
    []ValidatedOnly /\ [][FiredOnCaptured]_vars

\* the form edited into dimensions validation rejects while the calculation
\* of the validated ones is pending
C14_Witness ==
    /\ timers # <<>>
    /\ timers[1].dimensions # dimensions
    /\ ~Validated(dimensions)
    /\ Validated(timers[1].dimensions)

\* the pattern of the validated dimensions on display over an edited form
C14_WitnessFired ==
    /\ request.status = "done"
    /\ patternData # NULL
    /\ patternData.dimensions # dimensions
    /\ ~Validated(dimensions)

\* C18: patternData and error are never both set, and while validation
\* errors are shown no pattern is.
C18_PatternOrErrorOrNeither ==
    /\ ~(patternData # NULL /\ error # NoMessage)
    /\ (DOMAIN validationErrors # {}) => patternData = NULL

\* the error of a calculation that threw on display, no pattern with it
C18_Witness ==
    /\ error = InvalidTaperMessage
    /\ patternData = NULL
    /\ request.status = "threw"
    /\ timers = <<>>

\* validation errors on display, the pattern shown before them gone
C18_WitnessRejected ==
    /\ DOMAIN validationErrors # {}
    /\ patternData = NULL
    /\ error = NoMessage
    /\ isGenerating = FALSE
    /\ request.prior # NULL
    /\ dimensions.shape # "drum"

\* C19: from initialDimensions and no stored patterns, a form whose shape
\* is drum has equal diameters, and a pattern has type drum exactly when the
\* shape in its dimensions is drum.
C19_DrumShapeIsDrumPattern ==
    /\ (dimensions.shape = "drum") =>
           dimensions.topDiameter = dimensions.bottomDiameter
    /\ (patternData # NULL) =>
           ((patternData.type = "drum") = (patternData.dimensions.shape = "drum"))

\* a drum pattern on display, computed after the shape was changed to drum,
\* with a pattern saved
C19_Witness ==
    /\ patternData # NULL
    /\ patternData.type = "drum"
    /\ patternData.dimensions.shape = "drum"
    /\ dimensions.shape = "drum"
    /\ savedPatterns # <<>>

\* a frustum pattern on display while the form has been changed to a drum
C19_WitnessFrustum ==
    /\ patternData # NULL
    /\ patternData.type = "cone"
    /\ patternData.dimensions.shape # "drum"
    /\ dimensions.shape = "drum"

\* at most one calculation is pending, isGenerating is true exactly while it
\* is, and a rejected request has left none
PendingAtMostOne ==
    /\ Len(timers) <= 1
    /\ isGenerating = (timers # <<>>)
    /\ isGenerating = (request.status = "pending")
    /\ (request.status = "invalid") => (~isGenerating /\ timers = <<>>)

\* a click that passed validation: isGenerating goes from false to true and
\* one callback is added
ClickSchedulesOne ==
    (request.status # "pending" /\ request'.status = "pending") =>
        /\ ~isGenerating
        /\ isGenerating'
        /\ Len(timers') = Len(timers) + 1

\* the callback: isGenerating back to false, the callback gone, and exactly
\* one of patternData and error set, by success or by a throw
TimerSetsOne ==
    (request.status = "pending" /\ request'.status # "pending") =>
        /\ request'.status \in {"done", "threw"}
        /\ ~isGenerating'
        /\ timers' = <<>>
        /\ (patternData' # NULL) # (error' # NoMessage)
        /\ (request'.status = "done") = (patternData' # NULL)

\* a click that failed validation: isGenerating stays false, nothing scheduled
RejectSchedulesNone ==
    (request.status # "invalid" /\ request'.status = "invalid") =>
        /\ ~isGenerating /\ ~isGenerating'
        /\ timers = <<>> /\ timers' = <<>>

\* C20: a click that passes validation sets isGenerating and schedules one
\* calculation; the callback resets isGenerating whether the calculation
\* returns or throws and sets exactly one of patternData and error; at most
\* one calculation is pending at any time; a click that fails validation
\* sets no isGenerating and schedules nothing.
C20_OneCalculationPerClick ==
    []PendingAtMostOne /\ [][ClickSchedulesOne /\ TimerSetsOne /\ RejectSchedulesNone]_vars

\* a calculation pending for a click made over a displayed pattern
C20_Witness ==
    /\ isGenerating
    /\ Len(timers) = 1
    /\ request.status = "pending"
    /\ request.prior # NULL
    /\ patternData = NULL

\* the callback has thrown after an earlier one had returned a pattern
C20_WitnessThrew ==
    /\ request.status = "threw"
    /\ request.prior # NULL
    /\ ~isGenerating
    /\ error # NoMessage

-----------------------------------------------------------------------------
(* Claims about the saved patterns *)

\* what handleDeletePattern(id) would leave of the list
AfterDelete(id) == SelectSeq(savedPatterns, LAMBDA p : p.id # id)

\* C16: the saved patterns have pairwise distinct ids, so that deleting by
\* id removes exactly one entry and leaves the others in place.
C16_SavedIdsDistinct ==
    /\ \A i, j \in 1..Len(savedPatterns) :
           i # j => savedPatterns[i].id # savedPatterns[j].id
    /\ \A i \in 1..Len(savedPatterns) :
           Len(AfterDelete(savedPatterns[i].id)) = Len(savedPatterns) - 1

-----------------------------------------------------------------------------
(* Claims about handlePrint *)

Ran == printJob.status # "none"

Printed == printJob.status = "printed"

\* the marks of page i of the printed container on edge e
MarksOn(i, e) ==
    {k \in 1..Len(printJob.pages[i].marks) : printJob.pages[i].marks[k].edge = e}

\* the printed page labelled (Row r, Col c)
PagesAt(r, c) ==
    {j \in 1..Len(printJob.pages) :
        printJob.pages[j].assemblyRow = r /\ printJob.pages[j].assemblyCol = c}

\* C5: past 50 pages handlePrint alerts and builds no page; up to 50 pages,
\* 50 included, it prints all rows * cols pages; never a part of them.
C5_AllOrNothing ==
    Ran =>
        LET n == printJob.grid.cols * printJob.grid.rows
        IN  /\ (n > 50) => (printJob.status = "alerted" /\ printJob.pages = <<>>)
            /\ (n <= 50) => (Printed /\ Len(printJob.pages) = n)
            /\ Len(printJob.pages) \in {0, n}

C5_Witness ==
    /\ Printed
    /\ printJob.grid.cols * printJob.grid.rows = 50
    /\ Len(printJob.pages) = 50

\* a run that met the safety break
C5_WitnessAlert ==
    /\ printJob.status = "alerted"
    /\ printJob.pages = <<>>
    /\ printJob.grid.cols * printJob.grid.rows > 50

\* C6: the grid is the least one covering the pattern:
\* cols * pageWidth >= width > (cols - 1) * pageWidth, and likewise for rows;
\* a pattern of exactly one page's size gets one row or column.
C6_MinimalGrid ==
    Ran =>
        LET g == printJob.grid
            w == convertToPx(patternData.width, patternData.dimensions.unit)
            h == convertToPx(patternData.height, patternData.dimensions.unit)
            pw == PrintableWidthPx(g.paperSize)
            ph == PrintableHeightPx(g.paperSize)
        IN  /\ g.cols * pw >= w /\ w > (g.cols - 1) * pw
            /\ g.rows * ph >= h /\ h > (g.rows - 1) * ph
            /\ (w = pw) => g.cols = 1
            /\ (h = ph) => g.rows = 1

\* a pattern exactly one printable page high
C6_Witness ==
    /\ Ran
    /\ convertToPx(patternData.height, patternData.dimensions.unit)
           = PrintableHeightPx(printJob.grid.paperSize)
    /\ printJob.grid.rows = 1
    /\ printJob.grid.cols > 1

\* C7: a Right mark of tile (r, c) names (r, c+1), whose Left mark names
\* (r, c); a Bottom mark of (r, c) names (r+1, c), whose Top mark names (r, c).
C7_JoinMarksSymmetric ==
    Printed =>
        \A i \in 1..Len(printJob.pages) :
            LET pg == printJob.pages[i]
            IN  /\ \A k \in MarksOn(i, "right") :
                       /\ pg.marks[k].joinRow = pg.assemblyRow
                       /\ pg.marks[k].joinCol = pg.assemblyCol + 1
                       /\ \E j \in PagesAt(pg.marks[k].joinRow, pg.marks[k].joinCol) :
                              \E l \in MarksOn(j, "left") :
                                  /\ printJob.pages[j].marks[l].joinRow = pg.assemblyRow
                                  /\ printJob.pages[j].marks[l].joinCol = pg.assemblyCol
                /\ \A k \in MarksOn(i, "bottom") :
                       /\ pg.marks[k].joinRow = pg.assemblyRow + 1
                       /\ pg.marks[k].joinCol = pg.assemblyCol
                       /\ \E j \in PagesAt(pg.marks[k].joinRow, pg.marks[k].joinCol) :
                              \E l \in MarksOn(j, "top") :
                                  /\ printJob.pages[j].marks[l].joinRow = pg.assemblyRow
                                  /\ printJob.pages[j].marks[l].joinCol = pg.assemblyCol

C7_Witness ==
    /\ Printed
    /\ \E i \in 1..Len(printJob.pages) : MarksOn(i, "right") # {}
    /\ \E i \in 1..Len(printJob.pages) : MarksOn(i, "bottom") # {}

\* the tile a mark on edge e of tile (r, c) must name, 1-based
Neighbour(e, r, c) ==
    IF e = "top" THEN <<r - 1, c>>
    ELSE IF e = "bottom" THEN <<r + 1, c>>
    ELSE IF e = "left" THEN <<r, c - 1>>
    ELSE <<r, c + 1>>

\* C8: a tile has a Top mark iff it is not in the first row, a Bottom mark
\* iff not in the last row, a Left mark iff not in the first column, a Right
\* mark iff not in the last column; each mark names the adjacent tile, which
\* lies in the grid; a 1 x 1 grid has no marks.
C8_MarksFollowAdjacency ==
    Printed =>
        \A i \in 1..Len(printJob.pages) :
            LET pg == printJob.pages[i]
                g == printJob.grid
            IN  /\ (MarksOn(i, "top") # {}) = (pg.assemblyRow > 1)
                /\ (MarksOn(i, "bottom") # {}) = (pg.assemblyRow < g.rows)
                /\ (MarksOn(i, "left") # {}) = (pg.assemblyCol > 1)
                /\ (MarksOn(i, "right") # {}) = (pg.assemblyCol < g.cols)
                /\ \A k \in 1..Len(pg.marks) :
                       /\ <<pg.marks[k].joinRow, pg.marks[k].joinCol>>
                              = Neighbour(pg.marks[k].edge, pg.assemblyRow, pg.assemblyCol)
                       /\ pg.marks[k].joinRow \in 1..g.rows
                       /\ pg.marks[k].joinCol \in 1..g.cols
                       /\ Cardinality(MarksOn(i, pg.marks[k].edge)) = 1
                /\ (g.rows = 1 /\ g.cols = 1) => pg.marks = <<>>

\* a tile inside the grid, with all four marks
C8_Witness ==
    /\ Printed
    /\ \E i \in 1..Len(printJob.pages) : Len(printJob.pages[i].marks) = 4

\* a single page without marks
C8_WitnessSingle ==
    /\ Printed
    /\ Len(printJob.pages) = 1
    /\ printJob.pages[1].marks = <<>>

\* C9: the k-th page emitted is tile ((k-1) div cols, (k-1) mod cols), its
\* wrapper is moved by -col * printableWidth and -row * printableHeight, and
\* its page number is k: 1..rows*cols in order, no gap, no repeat.
C9_RowMajorOrder ==
    Printed =>
        /\ Len(printJob.pages) = printJob.grid.rows * printJob.grid.cols
        /\ \A k \in 1..Len(printJob.pages) :
               LET pg == printJob.pages[k]
                   g == printJob.grid
                   row == (k - 1) \div g.cols
                   col == (k - 1) % g.cols
               IN  /\ pg.assemblyRow = row + 1
                   /\ pg.assemblyCol = col + 1
                   /\ pg.left = -(col * g.printableWidthPx)
                   /\ pg.top = -(row * g.printableHeightPx)
                   /\ pg.pageNumber = k
                   /\ pg.totalPages = Len(printJob.pages)

C9_Witness ==
    /\ Printed
    /\ printJob.grid.rows > 1
    /\ printJob.grid.cols > 1
    /\ printJob.grid.rows # printJob.grid.cols
    /\ printJob.pages[Len(printJob.pages)].pageNumber = Len(printJob.pages)

=============================================================================
